---------------------------- MODULE Spec2Model ----------------------------
(***************************************************************************)
(* A model of src/src/lib.rs: the Discord message handler of the RAG bot   *)
(* (restart flag, retrieval, relevance filter, soft budget, completion,    *)
(* chunked dispatch) and the text chunker sub_strings.                     *)
(*                                                                         *)
(* Strings.  A Rust String is modelled as the sequence of its code points, *)
(* run-length encoded: a sequence of runs [c |-> code point, n |-> count], *)
(* n >= 1, adjacent runs having different code points.  The encoding is    *)
(* lossless and canonical, so string equality is equality of the           *)
(* encodings.  Byte offsets are computed from the UTF-8 width of each code *)
(* point, as the code computes them.                                       *)
(***************************************************************************)
EXTENDS Integers, Sequences, FiniteSets, TLC

Min(a, b) == IF a < b THEN a ELSE b

R(c, n) == [c |-> c, n |-> n]

(***************************************************************************)
(* char::len_utf8 (lib.rs:248): the number of bytes of a code point.       *)
(***************************************************************************)
len_utf8(c) ==
    IF c < 128 THEN 1 ELSE IF c < 2048 THEN 2 ELSE IF c < 65536 THEN 3 ELSE 4

(* str::len: the length in BYTES (lib.rs:152, 241, 245). *)
RECURSIVE str_len(_)
str_len(s) ==
    IF s = <<>> THEN 0
    ELSE Head(s).n * len_utf8(Head(s).c) + str_len(Tail(s))

(* chars().count(): the length in code points. *)
RECURSIVE chars_count(_)
chars_count(s) ==
    IF s = <<>> THEN 0 ELSE Head(s).n + chars_count(Tail(s))

(* String::push_str (lib.rs:105-106, 113, 155-156): concatenation. *)
push_str(s, t) ==
    IF s = <<>> THEN t
    ELSE IF t = <<>> THEN s
    ELSE IF s[Len(s)].c = t[1].c
         THEN SubSeq(s, 1, Len(s) - 1)
                \o <<R(t[1].c, s[Len(s)].n + t[1].n)>> \o Tail(t)
         ELSE s \o t

(* The first k code points of s, and s without them (chars().take(k)). *)
RECURSIVE take_chars(_, _)
take_chars(s, k) ==
    IF s = <<>> \/ k <= 0 THEN <<>>
    ELSE IF k < Head(s).n THEN <<R(Head(s).c, k)>>
    ELSE <<Head(s)>> \o take_chars(Tail(s), k - Head(s).n)

RECURSIVE drop_chars(_, _)
drop_chars(s, k) ==
    IF s = <<>> \/ k <= 0 THEN s
    ELSE IF k < Head(s).n THEN <<R(Head(s).c, Head(s).n - k)>> \o Tail(s)
    ELSE drop_chars(Tail(s), k - Head(s).n)

(* The number of bytes of the first k code points of s (all of s when    *)
(* it has fewer).                                                        *)
RECURSIVE prefix_bytes(_, _)
prefix_bytes(s, k) ==
    IF s = <<>> \/ k <= 0 THEN 0
    ELSE IF k <= Head(s).n THEN k * len_utf8(Head(s).c)
    ELSE Head(s).n * len_utf8(Head(s).c) + prefix_bytes(Tail(s), k - Head(s).n)

(* str::is_char_boundary: byte offset i is 0, the length, or the first   *)
(* byte of a code point.                                                 *)
RECURSIVE is_char_boundary(_, _)
is_char_boundary(s, i) ==
    IF i = 0 THEN TRUE
    ELSE IF s = <<>> \/ i < 0 THEN FALSE
    ELSE LET w == len_utf8(Head(s).c)
             span == Head(s).n * w
         IN  IF i <= span THEN i % w = 0
             ELSE is_char_boundary(Tail(s), i - span)

(* The number of code points that start before byte offset i. *)
RECURSIVE chars_before(_, _)
chars_before(s, i) ==
    IF s = <<>> \/ i <= 0 THEN 0
    ELSE LET w == len_utf8(Head(s).c)
             span == Head(s).n * w
         IN  IF i <= span THEN (i + w - 1) \div w
             ELSE Head(s).n + chars_before(Tail(s), i - span)

(* &string[from..to] (lib.rs:250): Rust panics unless from <= to <= len  *)
(* and both offsets are char boundaries.                                 *)
slice_ok(s, from, to) ==
    /\ from <= to
    /\ to <= str_len(s)
    /\ is_char_boundary(s, from)
    /\ is_char_boundary(s, to)

slice(s, from, to) ==
    drop_chars(take_chars(s, chars_before(s, to)), chars_before(s, from))

(* iter.by_ref().take(sub_len) summing ch.len_utf8() (lib.rs:246-249),   *)
(* the iterator having already yielded `taken` code points.              *)
take_len(s, taken, sub_len) ==
    prefix_bytes(s, taken + sub_len) - prefix_bytes(s, taken)

(* fn first_x_chars (lib.rs:236-238). *)
first_x_chars(s, x) == take_chars(s, x)

(***************************************************************************)
(* fn sub_strings (lib.rs:240-254).  The result records the chunks, the    *)
(* byte offsets used for slicing, and whether the call panicked (a slice   *)
(* off a char boundary, or the division by sub_len = 0 at line 241).       *)
(***************************************************************************)
RECURSIVE sub_strings_loop(_, _, _, _, _, _)
sub_strings_loop(string, sub_len, taken, pos, subs, cuts) ==
    IF ~(pos < str_len(string))
    THEN [panic |-> FALSE, subs |-> subs, cuts |-> cuts]
    ELSE LET len == take_len(string, taken, sub_len)
         IN  IF ~slice_ok(string, pos, pos + len)
             THEN [panic |-> TRUE, subs |-> subs,
                   cuts |-> cuts \o <<pos, pos + len>>]
             ELSE sub_strings_loop(string, sub_len,
                      Min(taken + sub_len, chars_count(string)), pos + len,
                      Append(subs, slice(string, pos, pos + len)),
                      cuts \o <<pos, pos + len>>)

(* A chunker that cuts every sub_len BYTES. *)
RECURSIVE sub_strings_bytes_loop(_, _, _, _, _)
sub_strings_bytes_loop(string, sub_len, pos, subs, cuts) ==
    IF ~(pos < str_len(string))
    THEN [panic |-> FALSE, subs |-> subs, cuts |-> cuts]
    ELSE LET to == Min(pos + sub_len, str_len(string))
         IN  IF ~slice_ok(string, pos, to)
             THEN [panic |-> TRUE, subs |-> subs, cuts |-> cuts \o <<pos, to>>]
             ELSE sub_strings_bytes_loop(string, sub_len, to,
                      Append(subs, slice(string, pos, to)),
                      cuts \o <<pos, to>>)

sub_strings_bytes(string, sub_len) ==
    IF sub_len = 0 THEN [panic |-> TRUE, subs |-> <<>>, cuts |-> <<>>]
    ELSE sub_strings_bytes_loop(string, sub_len, 0, <<>>, <<>>)

(* A chunker that stops before a last chunk shorter than sub_len. *)
RECURSIVE sub_strings_full_loop(_, _, _, _, _, _)
sub_strings_full_loop(string, sub_len, taken, pos, subs, cuts) ==
    IF ~(taken + sub_len <= chars_count(string))
    THEN [panic |-> FALSE, subs |-> subs, cuts |-> cuts]
    ELSE LET len == take_len(string, taken, sub_len)
         IN  sub_strings_full_loop(string, sub_len, taken + sub_len, pos + len,
                 Append(subs, slice(string, pos, pos + len)),
                 cuts \o <<pos, pos + len>>)

sub_strings_full(string, sub_len) ==
    IF sub_len = 0 THEN [panic |-> TRUE, subs |-> <<>>, cuts |-> <<>>]
    ELSE sub_strings_full_loop(string, sub_len, 0, 0, <<>>, <<>>)

sub_strings(string, sub_len) ==
    IF sub_len = 0 THEN [panic |-> TRUE, subs |-> <<>>, cuts |-> <<>>]
    ELSE sub_strings_loop(string, sub_len, 0, 0, <<>>, <<>>)

(* The in-order concatenation of a sequence of strings. *)
RECURSIVE concat(_)
concat(ss) == IF ss = <<>> THEN <<>> ELSE push_str(Head(ss), concat(Tail(ss)))


(***************************************************************************)
(* Program constants and literals.                                         *)
(***************************************************************************)
SOFT_CHAR_LIMIT == 30000

(* sub_strings(&r.choice, 1800) (lib.rs:197). *)
RESP_CHUNK_LEN == 1800

(* p.score > 0.75 (lib.rs:154); scores are counted in units of 10^-7. *)
SCORE_THRESHOLD == 7500000

(* chat_history(&channel_id.to_string(), 8) (lib.rs:101). *)
HISTORY_LIMIT == 8

(* PointsSearchParams { limit: 5 } (lib.rs:146). *)
SEARCH_LIMIT == 5

(* "/new" *)
NEW_COMMAND == <<R(47, 1), R(110, 1), R(101, 1), R(119, 1)>>

(* "Ok, I am starting a new conversation." *)
ACK_TEXT ==
    <<R(79, 1), R(107, 1), R(44, 1), R(32, 1), R(73, 1), R(32, 1), R(97, 1),
      R(109, 1), R(32, 1), R(115, 1), R(116, 1), R(97, 1), R(114, 1),
      R(116, 1), R(105, 1), R(110, 1), R(103, 1), R(32, 1), R(97, 1),
      R(32, 1), R(110, 1), R(101, 1), R(119, 1), R(32, 1), R(99, 1),
      R(111, 1), R(110, 1), R(118, 1), R(101, 1), R(114, 1), R(115, 1),
      R(97, 1), R(116, 1), R(105, 1), R(111, 1), R(110, 1), R(46, 1)>>

(* "Typing ..." *)
TYPING_TEXT ==
    <<R(84, 1), R(121, 1), R(112, 1), R(105, 1), R(110, 1), R(103, 1),
      R(32, 1), R(46, 3)>>

(* "\n" *)
NEWLINE == <<R(10, 1)>>

(***************************************************************************)
(* The configuration read from the environment (lib.rs:40-45): a sample    *)
(* deployment, system_prompt "You are Helper." and error_mesg              *)
(* "Sorry, something went wrong.".                                         *)
(***************************************************************************)
cs ==
    [system_prompt |->
        <<R(89, 1), R(111, 1), R(117, 1), R(32, 1), R(97, 1), R(114, 1),
          R(101, 1), R(32, 1), R(72, 1), R(101, 1), R(108, 1), R(112, 1),
          R(101, 1), R(114, 1), R(46, 1)>>,
     error_mesg |->
        <<R(83, 1), R(111, 1), R(114, 2), R(121, 1), R(44, 1), R(32, 1),
          R(115, 1), R(111, 1), R(109, 1), R(101, 1), R(116, 1), R(104, 1),
          R(105, 1), R(110, 1), R(103, 1), R(32, 1), R(119, 1), R(101, 1),
          R(110, 1), R(116, 1), R(32, 1), R(119, 1), R(114, 1), R(111, 1),
          R(110, 1), R(103, 1), R(46, 1)>>]

bot_id == "bot"
OTHER_USER == "alice"

(***************************************************************************)
(* str::eq_ignore_ascii_case (lib.rs:72): equality after mapping the ASCII *)
(* letters A-Z to a-z.                                                     *)
(***************************************************************************)
to_ascii_lowercase(c) == IF c >= 65 /\ c <= 90 THEN c + 32 ELSE c

RECURSIVE str_to_ascii_lowercase(_)
str_to_ascii_lowercase(s) ==
    IF s = <<>> THEN <<>>
    ELSE push_str(<<R(to_ascii_lowercase(Head(s).c), Head(s).n)>>,
                  str_to_ascii_lowercase(Tail(s)))

eq_ignore_ascii_case(a, b) ==
    str_to_ascii_lowercase(a) = str_to_ascii_lowercase(b)

(* A command test that compares the text exactly. *)
is_new_command_exact(text) == text = NEW_COMMAND

(* text.eq_ignore_ascii_case("/new") (lib.rs:72). *)
is_new_command(text) == eq_ignore_ascii_case(text, NEW_COMMAND)

(***************************************************************************)
(* Bounds of the model and the inputs drawn from them.                     *)
(***************************************************************************)
(* The longest search result considered (at most SEARCH_LIMIT). *)
MaxMatches == 2

(* The longest conversation the chat service holds in Spec, and in       *)
(* SpecHist (one message more than HISTORY_LIMIT).                       *)
MaxHist == 1
MaxConv == 9

(* The strings given to sub_strings in SpecChunk: at most MaxRuns runs of *)
(* at most MaxRunLen equal code points, cut with sub_len <= MaxSubLen.    *)
MaxRuns == 2
MaxRunLen == 2
MaxSubLen == 3

(* 'A' (1 byte), e-acute (2 bytes), a CJK ideograph (3 bytes), an emoji   *)
(* (4 bytes).                                                             *)
Alphabet == {65, 233, 20013, 128512}

RECURSIVE StringsOfRuns(_)
StringsOfRuns(k) ==
    IF k = 0 THEN {<<>>}
    ELSE LET shorter == StringsOfRuns(k - 1)
         IN  shorter \cup
             { Append(s, R(c, n)) :
                 s \in {t \in shorter : Len(t) = k - 1},
                 c \in Alphabet, n \in 1..MaxRunLen }

(* Canonical encodings only: adjacent runs differ. *)
ChunkStrings ==
    { s \in StringsOfRuns(MaxRuns) :
        \A j \in 1..(Len(s) - 1) : s[j].c # s[j + 1].c }

Channels == {"c1", "c2"}

(* "What is X?" *)
QUESTION ==
    <<R(87, 1), R(104, 1), R(97, 1), R(116, 1), R(32, 1), R(105, 1),
      R(115, 1), R(32, 1), R(88, 1), R(63, 1)>>

(* "/NEW" and "/new " (a trailing space: not the command). *)
NEW_UPPER == <<R(47, 1), R(78, 1), R(69, 1), R(87, 1)>>
NEW_SPACE == <<R(47, 1), R(110, 1), R(101, 1), R(119, 1), R(32, 1)>>

Contents == {NEW_COMMAND, NEW_UPPER, NEW_SPACE, QUESTION}

(* discord_flows::model::Message, the fields the handler reads. *)
Messages ==
    [author_bot : BOOLEAN, member : BOOLEAN,
     mentions : {{OTHER_USER}, {bot_id, OTHER_USER}},
     channel_id : Channels, content : Contents]

(* "hi", an earlier user turn; "ok", an earlier assistant turn. *)
HistMessages ==
    { [role |-> "user", content |-> <<R(104, 1), R(105, 1)>>],
      [role |-> "assistant", content |-> <<R(111, 1), R(107, 1)>>] }

RECURSIVE SeqsUpTo(_, _)
SeqsUpTo(S, n) ==
    IF n = 0 THEN {<<>>}
    ELSE LET shorter == SeqsUpTo(S, n - 1)
         IN  shorter \cup
             { Append(s, x) : s \in {t \in shorter : Len(t) = n - 1}, x \in S }

(* What the chat service holds for a channel id: no conversation (<<>>)  *)
(* or the conversation v (<<v>>), oldest message first, of at most n     *)
(* messages.                                                             *)
Conversations(n) == {<<>>} \cup { <<v>> : v \in SeqsUpTo(HistMessages, n) }

(* The last n elements of s. *)
LastN(s, n) == SubSeq(s, Len(s) - Min(n, Len(s)) + 1, Len(s))

(* openai_flows::chat::chat_history(id, limit) (lib.rs:101): None, or    *)
(* the last `limit` messages of the conversation, whatever their role.   *)
chat_history(conv, limit) ==
    IF conv = <<>> THEN <<>> ELSE <<LastN(conv[1], limit)>>

(* "X is a protocol." *)
PASSAGE ==
    <<R(88, 1), R(32, 1), R(105, 1), R(115, 1), R(32, 1), R(97, 1), R(32, 1),
      R(112, 1), R(114, 1), R(111, 1), R(116, 1), R(111, 1), R(99, 1),
      R(111, 1), R(108, 1), R(46, 1)>>

(* A passage of SOFT_CHAR_LIMIT ASCII characters, and one of a third as  *)
(* many three-byte characters (as many bytes, fewer characters).         *)
BIG_PASSAGE == <<R(120, SOFT_CHAR_LIMIT)>>
CJK_PASSAGE == <<R(20013, SOFT_CHAR_LIMIT \div 3)>>

(* A scored point: its score (units of 10^-7) and the value of           *)
(* payload?.get("text")?.as_str(): <<>> when the payload, the field or   *)
(* the string is missing, <<text>> otherwise.                            *)
P(score, text) == [score |-> score, text |-> text]

Points ==
    { P(SCORE_THRESHOLD, <<PASSAGE>>), P(SCORE_THRESHOLD + 1, <<PASSAGE>>),
      P(9000000, <<BIG_PASSAGE>>), P(9000000, <<CJK_PASSAGE>>),
      P(5000000, <<>>) }

SearchResults ==
    {[ok |-> FALSE, sp |-> <<>>]} \cup
    { [ok |-> TRUE, sp |-> sp] :
        sp \in SeqsUpTo(Points, Min(MaxMatches, SEARCH_LIMIT)) }

EmbeddingResults == {"ok", "empty", "err"}

(* Completion replies: "", "ok", and replies of RESP_CHUNK_LEN,          *)
(* RESP_CHUNK_LEN + 1 and 4000 characters, one of them multi-byte.       *)
Replies ==
    { <<>>, <<R(111, 1), R(107, 1)>>, <<R(97, RESP_CHUNK_LEN)>>,
      <<R(20013, RESP_CHUNK_LEN), R(97, 1)>>, <<R(97, 4000)>> }

CompletionResults ==
    {[ok |-> FALSE, choice |-> <<>>]} \cup
    { [ok |-> TRUE, choice |-> c] : c \in Replies }

(***************************************************************************)
(* State.                                                                  *)
(*   store    the key-value store: per channel id, <<>> (no value) or      *)
(*            <<b>> (the JSON boolean b).                                  *)
(*   run      per handler invocation: its position pc, its message and     *)
(*            its local variables, and calls, the collaborator calls it    *)
(*            has made so far, in order.  Two of its fields record what    *)
(*            the code does not hold: conv, the conversation chat_history  *)
(*            read, and overtaken, whether a reset command wrote the flag  *)
(*            of the run's channel after the run had read it.              *)
(*   chunker  a call of sub_strings on its own (SpecChunk).                *)
(*   pending  the channel ids whose latest reset command has been stored   *)
(*            and not yet used up: no turn that read the flag after the    *)
(*            command has succeeded.  The code holds no such set; it is    *)
(*            what C19 speaks of.                                          *)
(***************************************************************************)
VARIABLES store, run, chunker, pending

vars == <<store, run, chunker, pending>>

AllRuns == {"h1", "h2"}
SeqRuns == {"h1"}

NoMessage ==
    [author_bot |-> FALSE, member |-> FALSE, mentions |-> {},
     channel_id |-> "c1", content |-> <<>>]

InitRun ==
    [pc |-> "idle", msg |-> NoMessage, channel_id |-> "c1", text |-> <<>>,
     flag0 |-> <<>>, restart |-> FALSE, question_history |-> <<>>,
     sp |-> <<>>, i |-> 1, appended |-> <<>>,
     system_prompt_updated |-> <<>>, choice |-> <<>>, resps |-> <<>>,
     k |-> 1, conv |-> <<>>, overtaken |-> FALSE,
     outcome |-> "none", calls |-> <<>>]

(* One collaborator call: op, the key (channel id), the text, the flag,  *)
(* the system prompt and the result, each where the call has one.        *)
Call(op, key, text, flag, prompt, res) ==
    [op |-> op, key |-> key, text |-> text, flag |-> flag,
     prompt |-> prompt, res |-> res]

IdleChunker == [pc |-> "idle", string |-> <<>>, sub_len |-> 1,
                out |-> [panic |-> FALSE, subs |-> <<>>, cuts |-> <<>>]]

Init ==
    /\ store = [c \in Channels |-> <<>>]
    /\ run = [r \in AllRuns |-> InitRun]
    /\ chunker = IdleChunker
    /\ pending = {}

(***************************************************************************)
(* The handler (lib.rs:34-234), one action per collaborator call together  *)
(* with the code that leads to it.                                         *)
(***************************************************************************)
Ended(r) == run[r].pc \in {"idle", "done", "panicked"}

Logged(r, call) == Append(run[r].calls, call)

(* An addressing check that lets every message through. *)
mentions_me_always(m) == TRUE

(* for u in &msg.mentions { if *u.id.as_u64() == bot_id ... } (lib.rs:54-61) *)
mentions_me(m) == bot_id \in m.mentions

(* A flag that reads true when it was never stored. *)
get_restart_or_true(value) == IF value = <<>> THEN TRUE ELSE value[1]

(* store_flows::get followed by as_bool().unwrap_or_default()            *)
(* (lib.rs:94-97).                                                       *)
get_restart(value) == IF value = <<>> THEN FALSE ELSE value[1]

(* An author check that lets bots through. *)
author_is_bot_never(m) == FALSE

(* if msg.author.bot { return; } (lib.rs:49-52). *)
author_is_bot(m) == m.author_bot

(* The handler is invoked with message m (lib.rs:35-72): a bot's message *)
(* and an unaddressed guild message end the run at once; otherwise the   *)
(* text decides between the reset command and a turn.                    *)
Receive(r, m) ==
    /\ Ended(r)
    /\ run' = [run EXCEPT ![r] =
         IF author_is_bot(m)
         THEN [InitRun EXCEPT !.pc = "done", !.msg = m,
                              !.outcome = "ignored_bot"]
         ELSE IF m.member /\ ~mentions_me(m)
         THEN [InitRun EXCEPT !.pc = "done", !.msg = m,
                              !.outcome = "ignored_guild"]
         ELSE [InitRun EXCEPT
                 !.pc = IF is_new_command(m.content) THEN "ack"
                        ELSE "placeholder",
                 !.msg = m, !.channel_id = m.channel_id,
                 !.text = m.content, !.flag0 = store[m.channel_id]]]
    /\ UNCHANGED <<store, chunker, pending>>

(* discord.send_message(..."Ok, I am starting a new conversation.")      *)
(* (lib.rs:73-78); its result is ignored.                                *)
SendAck(r) ==
    /\ run[r].pc = "ack"
    /\ run' = [run EXCEPT ![r].pc = "set_restart",
                 ![r].calls = Logged(r, Call("send", run[r].channel_id,
                                  ACK_TEXT, FALSE, <<>>, "ok"))]
    /\ UNCHANGED <<store, chunker, pending>>

(* The run has read the restart flag and has not ended. *)
HasReadFlag(q) ==
    run[q].pc \notin {"idle", "done", "panicked", "ack", "set_restart",
                      "placeholder", "load"}

(* set(&channel_id.to_string(), json!(true), None); return               *)
(* (lib.rs:79-81).  Every other run of the channel that has read the     *)
(* flag already is marked overtaken.                                     *)
SetRestart(r) ==
    /\ run[r].pc = "set_restart"
    /\ store' = [store EXCEPT ![run[r].channel_id] = <<TRUE>>]
    /\ run' = [q \in AllRuns |->
                 IF q = r
                 THEN [run[r] EXCEPT !.pc = "done", !.outcome = "command",
                         !.calls = Logged(r, Call("set", run[r].channel_id,
                                      <<>>, TRUE, <<>>, "ok"))]
                 ELSE IF HasReadFlag(q) /\ run[q].channel_id = run[r].channel_id
                 THEN [run[q] EXCEPT !.overtaken = TRUE]
                 ELSE run[q]]
    /\ pending' = pending \cup {run[r].channel_id}
    /\ UNCHANGED chunker

(* discord.send_message(..."Typing ...").await.unwrap() (lib.rs:84-89):  *)
(* a failed send panics.                                                 *)
SendPlaceholder(r, ok) ==
    /\ run[r].pc = "placeholder"
    /\ run' = [run EXCEPT ![r].pc = IF ok THEN "load" ELSE "panicked",
                 ![r].calls = Logged(r, Call("send", run[r].channel_id,
                                  TYPING_TEXT, FALSE, <<>>,
                                  IF ok THEN "ok" ELSE "err"))]
    /\ UNCHANGED <<store, chunker, pending>>

(* let restart = match get(&channel_id.to_string()) ... (lib.rs:94-97). *)
LoadState(r) ==
    /\ run[r].pc = "load"
    /\ LET restart == get_restart(store[run[r].channel_id])
       IN  run' = [run EXCEPT ![r].pc = "history", ![r].restart = restart,
                     ![r].calls = Logged(r, Call("get", run[r].channel_id,
                                      <<>>, restart, <<>>, "ok"))]
    /\ UNCHANGED <<store, chunker, pending>>

(* A history that keeps the turns of every role. *)
RECURSIVE all_lines(_)
all_lines(v) ==
    IF v = <<>> THEN <<>>
    ELSE push_str(push_str(Head(v).content, NEWLINE), all_lines(Tail(v)))

(* The user turns of v, each followed by "\n" (lib.rs:103-108). *)
RECURSIVE user_lines(_)
user_lines(v) ==
    IF v = <<>> THEN <<>>
    ELSE IF Head(v).role = "user"
         THEN push_str(push_str(Head(v).content, NEWLINE), user_lines(Tail(v)))
         ELSE user_lines(Tail(v))

(* lib.rs:99-113: unless restart, chat_history(id, 8) is read from the   *)
(* conversation conv the service holds; then the current text is pushed. *)
BuildHistory(r, conv) ==
    /\ run[r].pc = "history"
    /\ run[r].restart => conv = <<>>
    /\ LET h == chat_history(conv, HISTORY_LIMIT)
           question_history ==
               IF run[r].restart \/ h = <<>> THEN run[r].text
               ELSE push_str(user_lines(h[1]), run[r].text)
       IN  run' = [run EXCEPT ![r].pc = "embed",
                     ![r].question_history = question_history,
                     ![r].conv = conv,
                     ![r].calls =
                        IF run[r].restart THEN run[r].calls
                        ELSE Logged(r, Call("chat_history", run[r].channel_id,
                                 <<>>, FALSE, <<>>,
                                 IF h = <<>> THEN "none" ELSE "some"))]
    /\ UNCHANGED <<store, chunker, pending>>

(* openai.create_embeddings(question_history) (lib.rs:117-141): an error *)
(* or an empty result ends the turn with the error message.              *)
Embed(r, res) ==
    /\ run[r].pc = "embed"
    /\ run' = [run EXCEPT
                 ![r].pc = IF res = "ok" THEN "search" ELSE "fail",
                 ![r].outcome = IF res = "ok" THEN "none" ELSE "EmbeddingError",
                 ![r].question_history = <<>>, ![r].conv = <<>>,
                 ![r].calls = Logged(r, Call("embed", run[r].channel_id,
                                  run[r].question_history, FALSE, <<>>, res))]
    /\ UNCHANGED <<store, chunker, pending>>

(* search_points(&cs.collection_name, &p) (lib.rs:144-149, 160-169). *)
Search(r, res) ==
    /\ run[r].pc = "search"
    /\ run' = [run EXCEPT
                 ![r].pc = IF res.ok THEN "filter" ELSE "fail",
                 ![r].outcome = IF res.ok THEN "none" ELSE "SearchError",
                 ![r].system_prompt_updated = cs.system_prompt,
                 ![r].sp = res.sp, ![r].i = 1,
                 ![r].calls = Logged(r, Call("search", run[r].channel_id,
                                  <<>>, FALSE, <<>>,
                                  IF res.ok THEN "ok" ELSE "err"))]
    /\ UNCHANGED <<store, chunker, pending>>

(* A budget test that never stops the loop. *)
over_budget_never(prompt) == FALSE

(* system_prompt_updated.len() > SOFT_CHAR_LIMIT (lib.rs:152). *)
over_budget(prompt) == str_len(prompt) > SOFT_CHAR_LIMIT

(* A relevance test that admits the threshold itself. *)
is_relevant_inclusive(p) == p.score >= SCORE_THRESHOLD

(* p.score > 0.75 (lib.rs:154). *)
is_relevant(p) == p.score > SCORE_THRESHOLD

(* One iteration of `for p in sp.iter()` (lib.rs:151-158): the budget    *)
(* test, the unwraps of the debug line (a point without text panics,     *)
(* whatever its score), the relevance test and the append.               *)
FilterStep(r) ==
    /\ run[r].pc = "filter"
    /\ LET i == run[r].i
           prompt == run[r].system_prompt_updated
       IN  run' = [run EXCEPT ![r] =
             IF i > Len(run[r].sp) \/ over_budget(prompt)
             THEN [@ EXCEPT !.pc = "gate"]
             ELSE IF run[r].sp[i].text = <<>>
             THEN [@ EXCEPT !.pc = "panicked"]
             ELSE IF is_relevant(run[r].sp[i])
             THEN [@ EXCEPT !.i = i + 1,
                     !.appended = Append(@, i),
                     !.system_prompt_updated =
                        push_str(push_str(prompt, NEWLINE), run[r].sp[i].text[1])]
             ELSE [@ EXCEPT !.i = i + 1]]
    /\ UNCHANGED <<store, chunker, pending>>

(* match system_prompt_updated.eq(&cs.system_prompt) (lib.rs:173-185).   *)
(* sp is out of scope from here on; the model keeps it, as a record of   *)
(* what the search returned, until the completion call.                  *)
Gate(r) ==
    /\ run[r].pc = "gate"
    /\ run' = [run EXCEPT ![r] =
             IF run[r].system_prompt_updated = cs.system_prompt
             THEN [@ EXCEPT !.pc = "fail", !.outcome = "NoRelevantContext"]
             ELSE [@ EXCEPT !.pc = "complete"]]
    /\ UNCHANGED <<store, chunker, pending>>

(* An error path that also clears the restart flag. *)
EditErrorClearing(r) ==
    /\ run[r].pc = "fail"
    /\ store' = [store EXCEPT ![run[r].channel_id] = <<FALSE>>]
    /\ run' = [run EXCEPT ![r].pc = "done",
                 ![r].calls = Logged(r, Call("edit", run[r].channel_id,
                                  cs.error_mesg, FALSE, <<>>, "ok"))]
    /\ UNCHANGED <<chunker, pending>>

(* An error path that sends the error message as a new message as well. *)
EditErrorAlsoSends(r) ==
    /\ run[r].pc = "fail"
    /\ run' = [run EXCEPT ![r].pc = "done",
                 ![r].calls = run[r].calls \o
                    <<Call("edit", run[r].channel_id, cs.error_mesg, FALSE,
                           <<>>, "ok"),
                      Call("send", run[r].channel_id, cs.error_mesg, FALSE,
                           <<>>, "ok")>>]
    /\ UNCHANGED <<store, chunker, pending>>

(* discord.edit_message(placeholder, cs.error_mesg); return              *)
(* (lib.rs:121-127, 133-139, 162-168, 176-182, 218-225).                 *)
EditError(r) ==
    /\ run[r].pc = "fail"
    /\ run' = [run EXCEPT ![r].pc = "done",
                 ![r].calls = Logged(r, Call("edit", run[r].channel_id,
                                  cs.error_mesg, FALSE, <<>>, "ok"))]
    /\ UNCHANGED <<store, chunker, pending>>

(* Options that leave restart at its default. *)
chat_options_default(r) ==
    [restart |-> FALSE, system_prompt |-> run[r].system_prompt_updated]

(* let co = ChatOptions { restart, system_prompt: Some(&system_prompt_updated), *)
(* .. } (lib.rs:187-193).                                                *)
chat_options(r) ==
    [restart |-> run[r].restart,
     system_prompt |-> run[r].system_prompt_updated]

(* openai.chat_completion(&channel_id.to_string(), &text, &co)           *)
(* (lib.rs:187-197, 217): on Ok the reply is split at once.              *)
Complete(r, res) ==
    /\ run[r].pc = "complete"
    /\ LET out == sub_strings(res.choice, RESP_CHUNK_LEN)
       IN  run' = [run EXCEPT
                 ![r].pc = IF ~res.ok THEN "fail"
                           ELSE IF out.panic THEN "panicked"
                           ELSE "edit_first",
                 ![r].outcome = IF res.ok THEN "none" ELSE "CompletionError",
                 ![r].sp = <<>>, ![r].i = 1, ![r].appended = <<>>,
                 ![r].choice = res.choice,
                 ![r].resps = IF res.ok THEN out.subs ELSE <<>>,
                 ![r].calls = Logged(r, Call("complete", run[r].channel_id,
                                  run[r].text, chat_options(r).restart,
                                  chat_options(r).system_prompt,
                                  IF res.ok THEN "ok" ELSE "err"))]
    /\ UNCHANGED <<store, chunker, pending>>

(* The chunks sent as new messages, all of them. *)
rest_from_first(resps) == 1

(* resps.iter().skip(1) (lib.rs:206-207): the first chunk sent as a new  *)
(* message is the second.                                                *)
rest_from(resps) == 2

(* discord.edit_message(placeholder, resps[0]) (lib.rs:199-204):         *)
(* indexing an empty resps panics.                                       *)
EditFirst(r) ==
    /\ run[r].pc = "edit_first"
    /\ run' = [run EXCEPT ![r] =
             IF run[r].resps = <<>>
             THEN [@ EXCEPT !.pc = "panicked"]
             ELSE [@ EXCEPT !.pc = "send_rest", !.k = rest_from(run[r].resps),
                     !.calls = Logged(r, Call("edit", run[r].channel_id,
                                  run[r].resps[1], FALSE, <<>>, "ok"))]]
    /\ UNCHANGED <<store, chunker, pending>>

(* for resp in resps.iter().skip(1) { discord.send_message(resp) }       *)
(* (lib.rs:206-215).                                                     *)
SendChunk(r) ==
    /\ run[r].pc = "send_rest"
    /\ run[r].k <= Len(run[r].resps)
    /\ run' = [run EXCEPT ![r].k = @ + 1,
                 ![r].calls = Logged(r, Call("send", run[r].channel_id,
                                  run[r].resps[run[r].k], FALSE, <<>>, "ok"))]
    /\ UNCHANGED <<store, chunker, pending>>

(* The run read the flag after the latest reset command of its channel. *)
UsesUpCommand(r) == run[r].restart /\ ~run[r].overtaken

(* A last step that stores false whatever restart was. *)
FinalizeAlways(r) ==
    /\ run[r].pc = "send_rest"
    /\ run[r].k > Len(run[r].resps)
    /\ store' = [store EXCEPT ![run[r].channel_id] = <<FALSE>>]
    /\ run' = [run EXCEPT ![r].pc = "done", ![r].outcome = "success",
                 ![r].calls = Logged(r, Call("set", run[r].channel_id, <<>>,
                                  FALSE, <<>>, "ok"))]
    /\ pending' = IF UsesUpCommand(r) THEN pending \ {run[r].channel_id}
                  ELSE pending
    /\ UNCHANGED chunker

(* if restart { set(&channel_id.to_string(), json!(false), None) }       *)
(* (lib.rs:229-234).                                                     *)
Finalize(r) ==
    /\ run[r].pc = "send_rest"
    /\ run[r].k > Len(run[r].resps)
    /\ store' = IF run[r].restart
                THEN [store EXCEPT ![run[r].channel_id] = <<FALSE>>]
                ELSE store
    /\ run' = [run EXCEPT ![r].pc = "done", ![r].outcome = "success",
                 ![r].calls =
                    IF run[r].restart
                    THEN Logged(r, Call("set", run[r].channel_id, <<>>, FALSE,
                                    <<>>, "ok"))
                    ELSE run[r].calls]
    /\ pending' = IF UsesUpCommand(r) THEN pending \ {run[r].channel_id}
                  ELSE pending
    /\ UNCHANGED chunker

(* Handler invocations delivered one at a time. *)
Next ==
    \E r \in SeqRuns :
        \/ \E m \in Messages : Receive(r, m)
        \/ SendAck(r)
        \/ SetRestart(r)
        \/ \E ok \in BOOLEAN : SendPlaceholder(r, ok)
        \/ LoadState(r)
        \/ \E conv \in Conversations(MaxHist) : BuildHistory(r, conv)
        \/ \E res \in EmbeddingResults : Embed(r, res)
        \/ \E res \in SearchResults : Search(r, res)
        \/ FilterStep(r)
        \/ Gate(r)
        \/ EditError(r)
        \/ \E res \in CompletionResults : Complete(r, res)
        \/ EditFirst(r)
        \/ SendChunk(r)
        \/ Finalize(r)

Spec == Init /\ [][Next]_vars

(***************************************************************************)
(* sub_strings on its own: every string of ChunkStrings with every         *)
(* sub_len of 0..MaxSubLen.                                                *)
(***************************************************************************)
InitChunk ==
    /\ store = [c \in Channels |-> <<>>]
    /\ run = [r \in AllRuns |-> InitRun]
    /\ pending = {}
    /\ chunker \in
         { [IdleChunker EXCEPT !.pc = "ready", !.string = s, !.sub_len = n] :
             s \in ChunkStrings, n \in 0..MaxSubLen }

SubStringsCall ==
    /\ chunker.pc = "ready"
    /\ chunker' = [chunker EXCEPT !.pc = "done",
                     !.out = sub_strings(chunker.string, chunker.sub_len)]
    /\ UNCHANGED <<store, run, pending>>

NextChunk == SubStringsCall

SpecChunk == InitChunk /\ [][NextChunk]_vars

(***************************************************************************)
(* The handler against conversations longer than HISTORY_LIMIT: direct     *)
(* messages of one channel, the reset command or a question, and one       *)
(* result of each kind from the other collaborators.                       *)
(***************************************************************************)
DirectMessages ==
    { m \in Messages :
        /\ ~m.author_bot /\ ~m.member /\ m.mentions = {OTHER_USER}
        /\ m.channel_id = "c1" /\ m.content \in {NEW_COMMAND, QUESTION} }

OneMatch == <<P(SCORE_THRESHOLD + 1, <<PASSAGE>>)>>

FewSearchResults ==
    { [ok |-> FALSE, sp |-> <<>>], [ok |-> TRUE, sp |-> <<>>],
      [ok |-> TRUE, sp |-> OneMatch] }

(* A reply of two chunks. *)
TWO_CHUNKS == <<R(97, RESP_CHUNK_LEN + 1)>>

FewCompletionResults ==
    { [ok |-> FALSE, choice |-> <<>>], [ok |-> TRUE, choice |-> TWO_CHUNKS] }

NextHist ==
    \E r \in SeqRuns :
        \/ \E m \in DirectMessages : Receive(r, m)
        \/ SendAck(r)
        \/ SetRestart(r)
        \/ \E ok \in BOOLEAN : SendPlaceholder(r, ok)
        \/ LoadState(r)
        \/ \E conv \in Conversations(MaxConv) : BuildHistory(r, conv)
        \/ \E res \in {"ok", "err"} : Embed(r, res)
        \/ \E res \in FewSearchResults : Search(r, res)
        \/ FilterStep(r)
        \/ Gate(r)
        \/ EditError(r)
        \/ \E res \in FewCompletionResults : Complete(r, res)
        \/ EditFirst(r)
        \/ SendChunk(r)
        \/ Finalize(r)

SpecHist == Init /\ [][NextHist]_vars

(***************************************************************************)
(* Handler invocations that overlap: the platform spawns one invocation    *)
(* per message (lib.rs:26-31) and nothing orders two invocations of one    *)
(* channel; each get and set of the store is atomic.                       *)
(***************************************************************************)
NextConc ==
    \E r \in AllRuns :
        \/ \E m \in DirectMessages : Receive(r, m)
        \/ SendAck(r)
        \/ SetRestart(r)
        \/ \E ok \in BOOLEAN : SendPlaceholder(r, ok)
        \/ LoadState(r)
        \/ BuildHistory(r, <<>>)
        \/ \E res \in {"ok", "err"} : Embed(r, res)
        \/ \E res \in FewSearchResults : Search(r, res)
        \/ FilterStep(r)
        \/ Gate(r)
        \/ EditError(r)
        \/ \E res \in FewCompletionResults : Complete(r, res)
        \/ EditFirst(r)
        \/ SendChunk(r)
        \/ Finalize(r)

SpecConc == Init /\ [][NextConc]_vars

(***************************************************************************)
(* Vocabulary of the properties.                                           *)
(***************************************************************************)
Failures ==
    {"EmbeddingError", "SearchError", "NoRelevantContext", "CompletionError"}

CallsOf(r, ops) == SelectSeq(run[r].calls, LAMBDA c : c.op \in ops)

HasCall(r, op, res) ==
    \E j \in 1..Len(run[r].calls) :
        run[r].calls[j].op = op /\ run[r].calls[j].res = res

LastCall(r) == run[r].calls[Len(run[r].calls)]

(* The message passes the author and addressing checks (lib.rs:49-66). *)
Addressed(m) == ~m.author_bot /\ (m.member => mentions_me(m))

ErrorEdit(r) ==
    Call("edit", run[r].channel_id, cs.error_mesg, FALSE, <<>>, "ok")

Placeholder(r) ==
    Call("send", run[r].channel_id, TYPING_TEXT, FALSE, <<>>, "ok")

(***************************************************************************)
(* C6.  For every string s and every max_len > 0, the chunks returned by   *)
(* sub_strings(s, max_len) concatenate, in order, to s exactly, and every  *)
(* chunk has at most max_len code points (characters, not bytes).          *)
(***************************************************************************)
C6_ChunkRoundTrip ==
    (chunker.pc = "done" /\ chunker.sub_len > 0) =>
        /\ ~chunker.out.panic
        /\ concat(chunker.out.subs) = chunker.string
        /\ \A j \in 1..Len(chunker.out.subs) :
              chars_count(chunker.out.subs[j]) <= chunker.sub_len

(* A multi-byte string cut into several chunks. *)
C6_Witness ==
    /\ chunker.pc = "done"
    /\ chunker.sub_len > 0
    /\ Len(chunker.out.subs) >= 2
    /\ str_len(chunker.string) > chars_count(chunker.string)
    /\ concat(chunker.out.subs) = chunker.string

(***************************************************************************)
(* C7.  For every string s and max_len > 0, every chunk returned by        *)
(* sub_strings is non-empty and every byte offset used for slicing is a    *)
(* code-point boundary of s (so no slice panics), also when a multi-byte   *)
(* character straddles byte position max_len; the empty string gives the   *)
(* empty sequence.                                                         *)
(***************************************************************************)
C7_ChunkBoundaries ==
    (chunker.pc = "done" /\ chunker.sub_len > 0) =>
        /\ ~chunker.out.panic
        /\ \A j \in 1..Len(chunker.out.subs) : chunker.out.subs[j] # <<>>
        /\ \A j \in 1..Len(chunker.out.cuts) :
              is_char_boundary(chunker.string, chunker.out.cuts[j])
        /\ Len(chunker.out.cuts) = 2 * Len(chunker.out.subs)
        /\ (chunker.string = <<>> => chunker.out.subs = <<>>)

(* A multi-byte character lies across byte position max_len. *)
C7_Witness ==
    /\ chunker.pc = "done"
    /\ chunker.sub_len > 0
    /\ chunker.sub_len < str_len(chunker.string)
    /\ ~is_char_boundary(chunker.string, chunker.sub_len)
    /\ Len(chunker.out.subs) >= 2
    /\ ~chunker.out.panic

(***************************************************************************)
(* C1.  A turn started with the stored restart flag of its channel true,   *)
(* whose embedding, search and completion calls all succeed, ends with     *)
(* the stored restart flag of that channel false.                          *)
(***************************************************************************)
C1_RestartCleared ==
    \A r \in AllRuns :
        ( /\ run[r].pc \in {"done", "panicked"}
          /\ run[r].flag0 = <<TRUE>>
          /\ HasCall(r, "embed", "ok")
          /\ HasCall(r, "search", "ok")
          /\ HasCall(r, "complete", "ok") )
        => store[run[r].channel_id] = <<FALSE>>

(***************************************************************************)
(* C2.  A turn that fails (embedding error or empty embedding, search      *)
(* error, no relevant context, completion error) makes no write to the     *)
(* store: the restart flag of its channel is what it was when the turn     *)
(* began, so a flag that was true stays true over any number of failing    *)
(* turns.                                                                  *)
(***************************************************************************)
C2_FailureKeepsFlag ==
    \A r \in AllRuns :
        run[r].outcome \in Failures =>
            /\ store[run[r].channel_id] = run[r].flag0
            /\ CallsOf(r, {"set"}) = <<>>

(* A failed completion after the flag was set: the flag is still true. *)
C2_Witness ==
    \E r \in AllRuns :
        /\ run[r].pc = "done"
        /\ run[r].outcome = "CompletionError"
        /\ run[r].flag0 = <<TRUE>>
        /\ store[run[r].channel_id] = <<TRUE>>

(***************************************************************************)
(* C3, as stated.  Every message whose text is "/new" (ASCII case          *)
(* ignored) ends with the restart flag of its channel set to true and      *)
(* exactly the acknowledgement sent.                                       *)
(***************************************************************************)
C3_EveryNewText ==
    \A r \in AllRuns :
        (run[r].pc = "done" /\ eq_ignore_ascii_case(run[r].msg.content, NEW_COMMAND))
        => /\ store[run[r].msg.channel_id] = <<TRUE>>
           /\ CallsOf(r, {"send"})
                = <<Call("send", run[r].msg.channel_id, ACK_TEXT, FALSE, <<>>, "ok")>>

(***************************************************************************)
(* C3, amended.  Every message from a non-bot author that is addressed to  *)
(* the bot (a direct message, or a guild message mentioning the bot) and   *)
(* whose text is "/new" (ASCII case ignored, nothing before or after)      *)
(* makes the handler send exactly the acknowledgement, then set the        *)
(* restart flag of the message's channel to true, with no embedding,       *)
(* search or completion call.                                              *)
(***************************************************************************)
C3_AddressedNewText ==
    \A r \in AllRuns :
        ( /\ run[r].pc # "idle"
          /\ Addressed(run[r].msg)
          /\ eq_ignore_ascii_case(run[r].msg.content, NEW_COMMAND) )
        => /\ run[r].pc \in {"ack", "set_restart", "done"}
           /\ CallsOf(r, {"embed", "search", "complete", "edit"}) = <<>>
           /\ run[r].pc = "done" =>
                /\ store[run[r].msg.channel_id] = <<TRUE>>
                /\ run[r].calls =
                     <<Call("send", run[r].msg.channel_id, ACK_TEXT, FALSE,
                            <<>>, "ok"),
                       Call("set", run[r].msg.channel_id, <<>>, TRUE, <<>>,
                            "ok")>>

(* "/NEW" in a guild channel, mentioning the bot, has been handled. *)
C3_Witness ==
    \E r \in AllRuns :
        /\ run[r].pc = "done"
        /\ run[r].msg.content = NEW_UPPER
        /\ run[r].msg.member
        /\ Addressed(run[r].msg)
        /\ store[run[r].msg.channel_id] = <<TRUE>>
        /\ Len(run[r].calls) = 2

(***************************************************************************)
(* C4.  When the search has returned successfully and every returned       *)
(* match has score <= 0.75, the augmented prompt equals the system         *)
(* prompt, the run goes on to edit the placeholder with the configured     *)
(* error message and ends there, and makes no completion call.             *)
(***************************************************************************)
AllBelow(sp) == \A j \in 1..Len(sp) : sp[j].score <= SCORE_THRESHOLD

AllHaveText(sp) == \A j \in 1..Len(sp) : sp[j].text # <<>>

SearchReturned(r) ==
    /\ run[r].calls # <<>>
    /\ \/ LastCall(r).op = "search" /\ LastCall(r).res = "ok"
       \/ run[r].outcome = "NoRelevantContext"

NoContextFallback(r) ==
    /\ run[r].system_prompt_updated = cs.system_prompt
    /\ run[r].pc \in {"filter", "gate", "fail", "done"}
    /\ CallsOf(r, {"complete"}) = <<>>
    /\ run[r].pc = "done" =>
          /\ LastCall(r) = ErrorEdit(r)
          /\ CallsOf(r, {"edit"}) = <<ErrorEdit(r)>>

C4_NoContextFallback ==
    \A r \in AllRuns :
        (SearchReturned(r) /\ AllBelow(run[r].sp)) => NoContextFallback(r)

(* The same for search results whose matches all carry a text. *)
C4_WithText ==
    \A r \in AllRuns :
        (SearchReturned(r) /\ AllBelow(run[r].sp) /\ AllHaveText(run[r].sp))
        => NoContextFallback(r)

(***************************************************************************)
(* C5.  Every failure outcome of a turn short-circuits the run: the only   *)
(* message sent is the placeholder, it is edited exactly once, with the    *)
(* configured error message, that edit is the last call of the run, and    *)
(* no later pipeline step has been called (no search or completion after   *)
(* an embedding failure, no completion after a retrieval failure).         *)
(***************************************************************************)
C5_FailureShortCircuits ==
    \A r \in AllRuns :
        run[r].outcome \in Failures =>
            /\ run[r].pc \in {"fail", "done"}
            /\ CallsOf(r, {"send"}) = <<Placeholder(r)>>
            /\ CallsOf(r, {"edit"}) =
                 IF run[r].pc = "done" THEN <<ErrorEdit(r)>> ELSE <<>>
            /\ run[r].pc = "done" => LastCall(r) = ErrorEdit(r)
            /\ run[r].outcome = "EmbeddingError" =>
                 CallsOf(r, {"search", "complete"}) = <<>>
            /\ run[r].outcome \in {"SearchError", "NoRelevantContext"} =>
                 CallsOf(r, {"complete"}) = <<>>
            /\ run[r].outcome = "CompletionError" =>
                 Len(CallsOf(r, {"complete"})) = 1

(* A search error has been answered with the error message. *)
C5_Witness ==
    \E r \in AllRuns :
        /\ run[r].pc = "done"
        /\ run[r].outcome = "SearchError"
        /\ LastCall(r) = ErrorEdit(r)
        /\ Len(CallsOf(r, {"send", "edit"})) = 2

(***************************************************************************)
(* C8.  In the filter loop a match is appended only if its score is        *)
(* strictly greater than 0.75, and a match at or below the threshold is    *)
(* skipped without stopping the iteration: the loop goes on to the next    *)
(* match, and a match with score > 0.75 met while the budget test of the   *)
(* loop passes is appended.                                                *)
(***************************************************************************)
FilterByScore(r, needs_text) ==
    LET i == run[r].i
        prompt == run[r].system_prompt_updated
    IN  ( /\ run[r].pc = "filter"
          /\ i <= Len(run[r].sp)
          /\ str_len(prompt) <= SOFT_CHAR_LIMIT
          /\ needs_text => run[r].sp[i].text # <<>> )
        => /\ run'[r].pc = "filter"
           /\ run'[r].i = i + 1
           /\ run'[r].system_prompt_updated =
                IF run[r].sp[i].score > SCORE_THRESHOLD /\ run[r].sp[i].text # <<>>
                THEN push_str(push_str(prompt, NEWLINE), run[r].sp[i].text[1])
                ELSE prompt

C8_FilterByScore == [][\A r \in AllRuns : FilterByScore(r, FALSE)]_vars

(* The same for matches that carry a text. *)
C8_WithText == [][\A r \in AllRuns : FilterByScore(r, TRUE)]_vars

(***************************************************************************)
(* C9.  Once the running augmented prompt has more than SOFT_CHAR_LIMIT    *)
(* (30000) characters, no step of the run changes it, whatever the scores  *)
(* of the remaining matches: the loop is left.  Hence every append         *)
(* happens at a prompt of at most 30000 characters, and the limit is       *)
(* exceeded by at most the one append that crossed it.                     *)
(***************************************************************************)
C9_BudgetStopsAppends ==
    [][\A r \in AllRuns :
         ( /\ ~Ended(r)
           /\ chars_count(run[r].system_prompt_updated) > SOFT_CHAR_LIMIT )
         => /\ run'[r].system_prompt_updated = run[r].system_prompt_updated
            /\ run[r].pc = "filter" => run'[r].pc = "gate"]_vars

(* The loop was left over the limit with a qualifying match not yet seen. *)
C9_Witness ==
    \E r \in AllRuns :
        /\ run[r].pc = "gate"
        /\ chars_count(run[r].system_prompt_updated) > SOFT_CHAR_LIMIT
        /\ Len(run[r].appended) = 1
        /\ run[r].i <= Len(run[r].sp)
        /\ run[r].sp[run[r].i].score > SCORE_THRESHOLD
        /\ run[r].sp[run[r].i].text # <<>>

(***************************************************************************)
(* C10.  After a successful completion whose reply splits into n >= 1      *)
(* chunks of at most 1800 characters, the run has edited the placeholder   *)
(* exactly once, with chunk 1, and has then sent exactly n - 1 new         *)
(* messages, chunks 2..n in order; the chunks are 1800 characters each     *)
(* but the last and join to the reply (4000 characters: 1800, 1800, 400).  *)
(***************************************************************************)
Dispatch(r) ==
    LET j == CHOOSE j \in 1..Len(run[r].calls) : run[r].calls[j].op = "complete"
    IN  SelectSeq(SubSeq(run[r].calls, j + 1, Len(run[r].calls)),
                  LAMBDA c : c.op \in {"edit", "send"})

Texts(cc) == [j \in 1..Len(cc) |-> cc[j].text]

C10_ChunkedDispatch ==
    \A r \in AllRuns :
        (run[r].pc = "done" /\ run[r].outcome = "success") =>
            LET d == Dispatch(r)
                n == (chars_count(run[r].choice) + RESP_CHUNK_LEN - 1)
                        \div RESP_CHUNK_LEN
            IN  /\ n >= 1
                /\ Len(d) = n
                /\ d[1].op = "edit"
                /\ \A j \in 2..n : d[j].op = "send"
                /\ \A j \in 1..n : d[j].key = run[r].channel_id
                /\ \A j \in 1..(n - 1) : chars_count(d[j].text) = RESP_CHUNK_LEN
                /\ chars_count(d[n].text) <= RESP_CHUNK_LEN
                /\ concat(Texts(d)) = run[r].choice
                /\ Len(CallsOf(r, {"edit"})) = 1
                /\ Len(CallsOf(r, {"send"})) = n
                /\ chars_count(run[r].choice) = 4000 =>
                     [j \in 1..n |-> chars_count(d[j].text)] = <<1800, 1800, 400>>

(* A reply of 4000 characters has been delivered in three messages. *)
C10_Witness ==
    \E r \in AllRuns :
        /\ run[r].pc = "done"
        /\ run[r].outcome = "success"
        /\ chars_count(run[r].choice) = 4000
        /\ Len(Dispatch(r)) = 3
        /\ Dispatch(r)[1].op = "edit"
        /\ Dispatch(r)[3].op = "send"
        /\ chars_count(Dispatch(r)[3].text) = 400

(***************************************************************************)
(* C11.  A guild message whose mentions do not include the bot id is       *)
(* discarded silently: the run ends having made no collaborator call (no   *)
(* send, no edit, no flag read or write, no embedding, search or           *)
(* completion).  A direct message always proceeds past the addressing      *)
(* check, whatever its mentions: its run is not discarded.                 *)
(* C11_EveryDirectMessage is the claim as stated; C11_AddressingCheck      *)
(* states the second half for direct messages whose author is not a bot    *)
(* (a bot's direct message ends at the author check, lib.rs:49-52, before  *)
(* the addressing check is reached).                                       *)
(***************************************************************************)
Received(r) == run[r].pc # "idle"

Discarded(r) ==
    /\ run[r].pc = "done"
    /\ run[r].outcome \in {"ignored_bot", "ignored_guild"}
    /\ run[r].calls = <<>>

SilentDiscard(r) ==
    (run[r].msg.member /\ bot_id \notin run[r].msg.mentions) => Discarded(r)

(* Past the addressing check the run makes a send first (the            *)
(* acknowledgement or the placeholder).                                 *)
PastAddressing(r) ==
    /\ run[r].outcome \notin {"ignored_bot", "ignored_guild"}
    /\ \/ run[r].pc \in {"ack", "placeholder"} /\ run[r].calls = <<>>
       \/ run[r].calls # <<>> /\ run[r].calls[1].op = "send"

C11_EveryDirectMessage ==
    \A r \in AllRuns :
        Received(r) =>
            /\ SilentDiscard(r)
            /\ ~run[r].msg.member => PastAddressing(r)

C11_AddressingCheck ==
    \A r \in AllRuns :
        Received(r) =>
            /\ SilentDiscard(r)
            /\ (~run[r].msg.member /\ ~run[r].msg.author_bot) =>
                   PastAddressing(r)

C11_Witness ==
    \E r \in AllRuns :
        /\ run[r].msg.member /\ ~run[r].msg.author_bot
        /\ run[r].msg.mentions = {OTHER_USER}
        /\ run[r].msg.content = QUESTION
        /\ Discarded(r)
        /\ store[run[r].msg.channel_id] = <<TRUE>>

(***************************************************************************)
(* C12.  While the flag of a channel id has never been stored (no reset    *)
(* command was processed for it), every turn of that channel reads         *)
(* restart false, every completion call it makes carries restart false,    *)
(* and no run writes the flag of that id.                                  *)
(***************************************************************************)
C12_NeverSetReadsFalse ==
    \A c \in Channels : \A r \in AllRuns :
        (store[c] = <<>> /\ Received(r) /\ run[r].msg.channel_id = c) =>
            /\ ~run[r].restart
            /\ \A j \in 1..Len(run[r].calls) :
                 /\ run[r].calls[j].op \in {"get", "complete"} =>
                        ~run[r].calls[j].flag
                 /\ run[r].calls[j].op # "set"

C12_Witness ==
    \E r \in AllRuns :
        /\ run[r].pc = "done" /\ run[r].outcome = "success"
        /\ store[run[r].channel_id] = <<>>
        /\ HasCall(r, "get", "ok") /\ HasCall(r, "complete", "ok")

(***************************************************************************)
(* C13.  Once the placeholder has been sent, the run ends in one of the    *)
(* terminal outcomes (success, or a failure whose error message is         *)
(* shown), whatever the collaborators return, an empty completion reply    *)
(* or a match without payload or "text" included: it never aborts.         *)
(***************************************************************************)
PlaceholderSent(r) ==
    \E j \in 1..Len(run[r].calls) : run[r].calls[j] = Placeholder(r)

C13_NeverAborts ==
    \A r \in AllRuns : PlaceholderSent(r) => run[r].pc # "panicked"

(***************************************************************************)
(* C14.  The text embedded for retrieval (question_history, the argument   *)
(* of create_embeddings at lib.rs:117) depends on restart.  When restart   *)
(* is true the chat history is not consulted and the embedded text is the  *)
(* current message text exactly.  When restart is false it is the up to    *)
(* HISTORY_LIMIT most recent turns of role "user" of the channel's         *)
(* conversation, oldest first, each followed by a newline, with the        *)
(* current text as the final line.                                         *)
(* C14_EightUserTurns is the claim as stated; C14_UserTurnsOfLastEight     *)
(* takes instead the turns of role "user" among the HISTORY_LIMIT most     *)
(* recent messages of any role, which is what chat_history(id, 8)          *)
(* followed by the role test at lib.rs:104 yields.                         *)
(***************************************************************************)
ConvOf(r) == IF run[r].conv = <<>> THEN <<>> ELSE run[r].conv[1]

UserTurns(v) == SelectSeq(v, LAMBDA t : t.role = "user")

RECURSIVE Joined(_)
Joined(v) ==
    IF v = <<>> THEN <<>>
    ELSE push_str(Head(v).content, push_str(NEWLINE, Joined(Tail(v))))

HistoryConsulted(r) == CallsOf(r, {"chat_history"}) # <<>>

EmbeddedText(r, turns) ==
    /\ run[r].restart =>
          /\ ~HistoryConsulted(r)
          /\ run[r].question_history = run[r].text
    /\ ~run[r].restart =>
          /\ HistoryConsulted(r)
          /\ run[r].question_history = push_str(Joined(turns), run[r].text)

C15_CompletionArguments ==
    \A r \in AllRuns :
        LET cc == CallsOf(r, {"complete"})
            gets == CallsOf(r, {"get"})
        IN  /\ Len(cc) <= 1
            /\ \A j \in 1..Len(cc) :
                 /\ cc[j].key = run[r].msg.channel_id
                 /\ cc[j].text = run[r].msg.content
                 /\ Len(gets) = 1 /\ cc[j].flag = gets[1].flag
                 /\ cc[j].prompt = run[r].system_prompt_updated
                 /\ cc[j].prompt # cs.system_prompt

C15_Witness ==
    \E r \in AllRuns :
        LET cc == CallsOf(r, {"complete"})
            em == CallsOf(r, {"embed"})
        IN  /\ Len(cc) = 1 /\ Len(em) = 1
            /\ em[1].text # cc[1].text
            /\ cc[1].key = "c2"
            /\ run[r].pc = "done"

(***************************************************************************)
(* C16.  The restart flag is written by two steps only: the reset command  *)
(* writes true, and Finalize writes false.  Finalize writes only in a run  *)
(* that read restart true and whose dispatch was carried out (the          *)
(* completion returned Ok and the whole reply was handed to the            *)
(* transport).  A run that read restart false, a run that failed and a     *)
(* discarded run leave the flag of every channel id unchanged, and no run  *)
(* writes the flag of a channel id other than its own.                     *)
(* A write is a step that changes the store or adds a set call to a log.   *)
(***************************************************************************)
Sets(r) ==
    /\ Len(run'[r].calls) = Len(run[r].calls) + 1
    /\ run'[r].calls[Len(run'[r].calls)].op = "set"

SetCall(r) == run'[r].calls[Len(run'[r].calls)]

ByCommand(r) ==
    /\ run[r].pc = "set_restart" /\ is_new_command(run[r].msg.content)
    /\ SetCall(r).flag

ByFinalize(r) ==
    /\ ~SetCall(r).flag
    /\ run[r].restart
    /\ \E j \in 1..Len(run[r].calls) :
         run[r].calls[j].op = "get" /\ run[r].calls[j].flag
    /\ HasCall(r, "complete", "ok")
    /\ run[r].choice # <<>>
    /\ concat(Texts(Dispatch(r))) = run[r].choice
    /\ run'[r].outcome = "success"

FlagFrame ==
    /\ \A c \in Channels :
         store'[c] # store[c] => \E r \in AllRuns : Sets(r) /\ SetCall(r).key = c
    /\ \A r \in AllRuns :
         Sets(r) =>
            /\ SetCall(r).key = run[r].msg.channel_id
            /\ store' = [store EXCEPT ![SetCall(r).key] = <<SetCall(r).flag>>]
            /\ ByCommand(r) \/ ByFinalize(r)

Appends(r) ==
    /\ run'[r].i = run[r].i + 1
    /\ run'[r].system_prompt_updated =
         push_str(push_str(run[r].system_prompt_updated, NEWLINE),
                  run[r].sp[run[r].i].text[1])

C17_CharacterBudget ==
    [][\A r \in AllRuns :
         ( /\ run[r].pc = "filter"
           /\ run[r].i <= Len(run[r].sp)
           /\ run[r].sp[run[r].i].score > SCORE_THRESHOLD
           /\ run[r].sp[run[r].i].text # <<>>
           /\ run'[r] # run[r] )
         => ( Appends(r) <=>
                chars_count(run[r].system_prompt_updated) <= SOFT_CHAR_LIMIT )]_vars

(***************************************************************************)
(* C18.  The completion collaborator is called exactly when retrieval      *)
(* succeeded and at least one returned match has a score above the         *)
(* threshold; the prompt passed then differs from the base system prompt   *)
(* and is the base prompt followed by, for each appended match in order,   *)
(* a newline and the match text.                                           *)
(* From the search result to the completion call the run holds sp; a run   *)
(* about to call (pc = "complete") always calls.                           *)
(***************************************************************************)
BeforeCompletion(r) ==
    HasCall(r, "search", "ok") /\ CallsOf(r, {"complete"}) = <<>>

SomeAbove(sp) == \E j \in 1..Len(sp) : sp[j].score > SCORE_THRESHOLD

RECURSIVE Augmented(_, _, _)
Augmented(base, sp, idx) ==
    IF idx = <<>> THEN base
    ELSE Augmented(push_str(base, push_str(NEWLINE, sp[Head(idx)].text[1])),
                   sp, Tail(idx))

Increasing(idx) == \A j \in 1..(Len(idx) - 1) : idx[j] < idx[j + 1]

CompletionGate(r) ==
    /\ SomeAbove(run[r].sp) => run[r].pc \in {"filter", "gate", "complete"}
    /\ ~SomeAbove(run[r].sp) => run[r].pc # "complete"
    /\ run[r].pc = "complete" =>
          /\ run[r].system_prompt_updated # cs.system_prompt
          /\ run[r].appended # <<>> /\ Increasing(run[r].appended)
          /\ run[r].system_prompt_updated =
                Augmented(cs.system_prompt, run[r].sp, run[r].appended)

C18_CompletionGate ==
    \A r \in AllRuns : BeforeCompletion(r) => CompletionGate(r)

(* The same for search results whose matches all carry a text. *)
C18_WithText ==
    \A r \in AllRuns :
        (BeforeCompletion(r) /\ AllHaveText(run[r].sp)) => CompletionGate(r)

(***************************************************************************)
(* C19.  A reset command is never lost, whatever the interleaving of       *)
(* overlapping invocations (each get and set being atomic): once a "/new"  *)
(* run has stored the flag of a channel id, a turn of that id that reads   *)
(* the flag afterwards reads true, until a turn that read it after the     *)
(* command has succeeded; in particular a restarted turn that was in       *)
(* flight when the command ran does not overwrite the command's flag with  *)
(* false.                                                                  *)
(***************************************************************************)
ReadsFlag(r) == run[r].pc = "load" /\ run'[r].pc = "history"

Finalizes(r) == run[r].pc = "send_rest" /\ run'[r].pc = "done"

ResetNotLost(r) ==
    /\ (ReadsFlag(r) /\ run[r].channel_id \in pending) => run'[r].restart
    /\ (Finalizes(r) /\ run[r].overtaken) =>
           store'[run[r].channel_id] = store[run[r].channel_id]

C19_ResetNotLost == [][\A r \in AllRuns : ResetNotLost(r)]_vars

(***************************************************************************)
(* C20.  A message whose author is a bot is ignored entirely, before any   *)
(* other check: its run ends having made no collaborator call (no send or  *)
(* edit, no flag read or write, no embedding, search or completion), also  *)
(* when its text is "/new" or it mentions the bot.                         *)
(***************************************************************************)
C20_BotIgnored ==
    \A r \in AllRuns :
        (Received(r) /\ run[r].msg.author_bot) =>
            /\ run[r].pc = "done"
            /\ run[r].outcome = "ignored_bot"
            /\ run[r].calls = <<>>

(* A bot's direct "/new" mentioning the bot was dropped and the flag of  *)
(* its channel was never stored.                                         *)
C20_Witness ==
    \E r \in AllRuns :
        /\ run[r].msg.author_bot /\ ~run[r].msg.member
        /\ bot_id \in run[r].msg.mentions
        /\ run[r].msg.content = NEW_COMMAND
        /\ run[r].pc = "done" /\ run[r].calls = <<>>
        /\ store[run[r].msg.channel_id] = <<>>

=============================================================================
